---- MODULE Spec2Model ----
(***************************************************************************)
(* Model of the Conductor of franklad/parallel (the zerolog variant):      *)
(* NewConductor, Run, ThenStop, Errors and monitor, with the goroutines    *)
(* they launch, the unbuffered stop channel, the buffered errors channel,  *)
(* the parent context, the shutdown timeout context and os/signal          *)
(* delivery.                                                               *)
(***************************************************************************)
EXTENDS Integers, Sequences, FiniteSets, TLC

\* Number of processes handed to NewConductor.
NumProc == 2

\* Number of SIGINT/SIGTERM deliveries the environment may perform.
MaxSignals == 1

VARIABLES
    mainPc,        \* position of the goroutine calling Run(ctx).ThenStop()
    monPc,         \* position of the monitor goroutine
    monTaken,      \* the processError the monitor received, or NoRec
    runPc,         \* per process: position of its runner goroutine
    runResult,     \* per process: what process.Run returned
    runCalls,      \* per process: number of process.Run invocations
    stopPc,        \* per process: position of its stop goroutine
    stopCalls,     \* per process: number of process.Stop invocations
    stopLog,       \* per process: outcome logged by the stop goroutine
    errors,        \* c.errors: buffered channel of processError
    ctxDone,       \* the parent context passed to Run is done
    stopCtx,       \* the context.WithTimeout context of ThenStop
    notify,        \* c.stop is registered with os/signal
    wg,            \* sync.WaitGroup counter of ThenStop
    passes,        \* number of executions of ThenStop's shutdown body
    trigger,       \* who delivered the value ThenStop received on c.stop
    sigCount,      \* SIGINT/SIGTERM deliveries so far
    consumed,      \* records received by an external reader of Errors()
    consumerMode,  \* whether the caller receives from Errors(): "none" or "during"
    monSends,      \* number of sends the monitor completed on c.stop
    stopClosed,    \* close(c.stop) was executed (zap variant of ThenStop only)
    errorsClosed,  \* close(c.errors) was executed (zap variant of ThenStop only)
    panicked       \* the goroutine whose panic ended the program, or "none"

vars == <<mainPc, monPc, monTaken, runPc, runResult, runCalls, stopPc,
          stopCalls, stopLog, errors, ctxDone, stopCtx, notify, wg, passes,
          trigger, sigCount, consumed, consumerMode, monSends, stopClosed,
          errorsClosed, panicked>>

\* the state of the two closable channels and of the program as a whole
closeVars == <<stopClosed, errorsClosed, panicked>>

\* c.processes
Procs == 1..NumProc

\* a failure buffer one slot short: make(chan processError, len(processes)-1)
ErrorsCap_OneShort == NumProc - 1

\* cap(c.errors): make(chan processError, len(processes))
ErrorsCap == NumProc

\* the zero value of the local `err` of monitor: nothing received
NoRec == [process |-> 0, err |-> "none"]

\* processError{process: process, err: err}
processError(p, e) == [process |-> p, err |-> e]

\* processes whose Run returned a non-nil error
Failed == {p \in Procs : runResult[p] = "failure"}

\* processes whose runner completed `c.errors <- processError{...}`
Published == {p \in Failed : runPc[p] = "done"}

\* p has a record waiting in the buffer of c.errors
InBuffer(p) == \E i \in 1..Len(errors) : errors[i].process = p

\* ctx.Done() of the shutdown context is closed
StopCtxDone == stopCtx \in {"expired", "cancelled"}

AllStopsInvoked == \A p \in Procs : stopCalls[p] >= 1

AllStopsReturned == \A p \in Procs : stopPc[p] = "returned"

Init ==
    /\ mainPc = "run"
    /\ monPc = "idle"
    /\ monTaken = NoRec
    /\ runPc = [p \in Procs |-> "idle"]
    /\ runResult = [p \in Procs |-> "none"]
    /\ runCalls = [p \in Procs |-> 0]
    /\ stopPc = [p \in Procs |-> "idle"]
    /\ stopCalls = [p \in Procs |-> 0]
    /\ stopLog = [p \in Procs |-> "none"]
    /\ errors = <<>>
    /\ ctxDone = FALSE
    /\ stopCtx = "none"
    /\ notify = TRUE
    /\ wg = 0
    /\ passes = 0
    /\ trigger = "none"
    /\ sigCount = 0
    /\ consumed = {}
    /\ consumerMode \in {"none", "during"}
    /\ monSends = 0
    /\ stopClosed = FALSE
    /\ errorsClosed = FALSE
    /\ panicked = "none"

(***************************************************************************)
(* Conductor.Run: launch the monitor and one runner per process, return.   *)
(* A runner logs "starting process" and calls process.Run(ctx); neither    *)
(* touches the Conductor's state, so the call belongs to the launch step   *)
(* and Run returns with every process.Run in flight.                       *)
(***************************************************************************)
\* a Run(ctx).ThenStop() chain whose ThenStop does not wait on <-c.stop
Run_SkipsWait ==
    /\ mainPc = "run"
    /\ monPc' = "select"
    /\ runPc' = [p \in Procs |-> "running"]
    /\ runCalls' = [p \in Procs |-> runCalls[p] + 1]
    /\ mainPc' = "shutdown"
    /\ UNCHANGED <<monTaken, runResult, stopPc, stopCalls, stopLog, errors,
                   ctxDone, stopCtx, notify, wg, passes, trigger, sigCount,
                   consumed, consumerMode, monSends, closeVars>>

\* a Run that forgets the last process of the collection
Run_SkipsLast ==
    /\ mainPc = "run"
    /\ monPc' = "select"
    /\ runPc' = [p \in Procs |-> IF p = NumProc THEN "idle" ELSE "running"]
    /\ runCalls' = [p \in Procs |-> IF p = NumProc THEN 0 ELSE runCalls[p] + 1]
    /\ mainPc' = "waitStop"
    /\ UNCHANGED <<monTaken, runResult, stopPc, stopCalls, stopLog, errors,
                   ctxDone, stopCtx, notify, wg, passes, trigger, sigCount,
                   consumed, consumerMode, monSends, closeVars>>

Run ==
    /\ mainPc = "run"
    /\ monPc' = "select"
    /\ runPc' = [p \in Procs |-> "running"]
    /\ runCalls' = [p \in Procs |-> runCalls[p] + 1]
    /\ mainPc' = "waitStop"
    /\ UNCHANGED <<monTaken, runResult, stopPc, stopCalls, stopLog, errors,
                   ctxDone, stopCtx, notify, wg, passes, trigger, sigCount,
                   consumed, consumerMode,
                   monSends, closeVars>>

\* what a process's Run may return: nil or a non-nil error (ctx.Err() included)
RunOutcomes == {"nil", "failure"}

\* a nil-reporting runner: `if err := process.Run(ctx); err != nil` without the test
RunReturn_ReportsNil(p, r) ==
    /\ runPc[p] = "running"
    /\ r \in RunOutcomes
    /\ runResult' = [runResult EXCEPT ![p] = r]
    /\ runPc' = [runPc EXCEPT ![p] = "send"]
    /\ UNCHANGED <<mainPc, monPc, monTaken, runCalls, stopPc, stopCalls,
                   stopLog, errors, ctxDone, stopCtx, notify, wg, passes,
                   trigger, sigCount, consumed, consumerMode,
                   monSends, closeVars>>

\* process.Run(ctx) returns r; the runner tests `err != nil`
RunReturn(p, r) ==
    /\ runPc[p] = "running"
    /\ r \in RunOutcomes
    /\ runResult' = [runResult EXCEPT ![p] = r]
    /\ runPc' = [runPc EXCEPT ![p] = IF r = "nil" THEN "done" ELSE "send"]
    /\ UNCHANGED <<mainPc, monPc, monTaken, runCalls, stopPc, stopCalls,
                   stopLog, errors, ctxDone, stopCtx, notify, wg, passes,
                   trigger, sigCount, consumed, consumerMode,
                   monSends, closeVars>>

\* runner goroutine: c.errors <- processError{process, err}; blocks while full
RunnerSend(p) ==
    /\ runPc[p] = "send"
    /\ Len(errors) < ErrorsCap
    /\ errors' = Append(errors, processError(p, runResult[p]))
    /\ runPc' = [runPc EXCEPT ![p] = "done"]
    /\ UNCHANGED <<mainPc, monPc, monTaken, runResult, runCalls, stopPc,
                   stopCalls, stopLog, ctxDone, stopCtx, notify, wg, passes,
                   trigger, sigCount, consumed, consumerMode,
                   monSends, closeVars>>

(***************************************************************************)
(* Conductor.monitor: one select over c.errors and ctx.Done(), then a      *)
(* blocking send on the unbuffered c.stop.                                 *)
(***************************************************************************)
\* a monitor that logs the failure and returns without `c.stop <- SIGTERM`
MonitorRecvErr_NoArm ==
    /\ monPc = "select"
    /\ errors # <<>>
    /\ monTaken' = Head(errors)
    /\ errors' = Tail(errors)
    /\ monPc' = "done"
    /\ UNCHANGED <<mainPc, runPc, runResult, runCalls, stopPc, stopCalls,
                   stopLog, ctxDone, stopCtx, notify, wg, passes, trigger,
                   sigCount, consumed, consumerMode,
                   monSends, closeVars>>

\* case err := <-c.errors
MonitorRecvErr ==
    /\ monPc = "select"
    /\ errors # <<>>
    /\ monTaken' = Head(errors)
    /\ errors' = Tail(errors)
    /\ monPc' = "send"
    /\ UNCHANGED <<mainPc, runPc, runResult, runCalls, stopPc, stopCalls,
                   stopLog, ctxDone, stopCtx, notify, wg, passes, trigger,
                   sigCount, consumed, consumerMode,
                   monSends, closeVars>>

\* a monitor that logs "context cancelled" and returns without arming
MonitorCtxDone_NoArm ==
    /\ monPc = "select"
    /\ ctxDone
    /\ monPc' = "done"
    /\ UNCHANGED <<mainPc, monTaken, runPc, runResult, runCalls, stopPc,
                   stopCalls, stopLog, errors, ctxDone, stopCtx, notify, wg,
                   passes, trigger, sigCount, consumed, consumerMode,
                   monSends, closeVars>>

\* case <-ctx.Done()
MonitorCtxDone ==
    /\ monPc = "select"
    /\ ctxDone
    /\ monPc' = "send"
    /\ UNCHANGED <<mainPc, monTaken, runPc, runResult, runCalls, stopPc,
                   stopCalls, stopLog, errors, ctxDone, stopCtx, notify, wg,
                   passes, trigger, sigCount, consumed, consumerMode,
                   monSends, closeVars>>

\* a monitor that loops back to its select after arming the trigger
MonitorSend_Loops ==
    /\ monPc = "send"
    /\ mainPc = "waitStop"
    /\ monPc' = "select"
    /\ mainPc' = "shutdown"
    /\ trigger' = "monitor"
    /\ monSends' = monSends + 1
    /\ UNCHANGED <<monTaken, runPc, runResult, runCalls, stopPc, stopCalls,
                   stopLog, errors, ctxDone, stopCtx, notify, wg, passes,
                   sigCount, consumed, consumerMode, closeVars>>

\* c.stop <- syscall.SIGTERM meets ThenStop's <-c.stop (unbuffered rendezvous)
MonitorSend ==
    /\ monPc = "send"
    /\ mainPc = "waitStop"
    /\ monPc' = "done"
    /\ mainPc' = "shutdown"
    /\ trigger' = "monitor"
    /\ monSends' = monSends + 1
    /\ UNCHANGED <<monTaken, runPc, runResult, runCalls, stopPc, stopCalls,
                   stopLog, errors, ctxDone, stopCtx, notify, wg, passes,
                   sigCount, consumed, consumerMode,
                   closeVars>>

(***************************************************************************)
(* os/signal: a registered channel gets a non-blocking send per signal.    *)
(***************************************************************************)
\* the signal reaches ThenStop, which is parked on <-c.stop
SignalReceived ==
    /\ notify
    /\ sigCount < MaxSignals
    /\ mainPc = "waitStop"
    /\ sigCount' = sigCount + 1
    /\ mainPc' = "shutdown"
    /\ trigger' = "signal"
    /\ UNCHANGED <<monPc, monTaken, runPc, runResult, runCalls, stopPc,
                   stopCalls, stopLog, errors, ctxDone, stopCtx, notify, wg,
                   passes, consumed, consumerMode,
                   monSends, closeVars>>

\* nobody is receiving on the unbuffered c.stop: os/signal drops the signal
SignalDropped ==
    /\ notify
    /\ sigCount < MaxSignals
    /\ mainPc # "waitStop"
    /\ sigCount' = sigCount + 1
    /\ UNCHANGED <<mainPc, monPc, monTaken, runPc, runResult, runCalls,
                   stopPc, stopCalls, stopLog, errors, ctxDone, stopCtx,
                   notify, wg, passes, trigger, consumed, consumerMode,
                   monSends, closeVars>>

\* the caller cancels the parent context, or its deadline passes
CancelParent ==
    /\ ~ctxDone
    /\ ctxDone' = TRUE
    /\ UNCHANGED <<mainPc, monPc, monTaken, runPc, runResult, runCalls,
                   stopPc, stopCalls, stopLog, errors, stopCtx, notify, wg,
                   passes, trigger, sigCount, consumed, consumerMode,
                   monSends, closeVars>>

(***************************************************************************)
(* Conductor.ThenStop after <-c.stop.                                      *)
(***************************************************************************)
\* a fan-out that stops only the processes whose Run has not returned
ThenStopFanout_SkipsReturned ==
    /\ mainPc = "shutdown"
    /\ stopCtx' = "active"
    /\ passes' = passes + 1
    /\ wg' = wg + Cardinality({p \in Procs : runPc[p] # "done"})
    /\ stopPc' = [p \in Procs |-> IF runPc[p] = "done" THEN "idle" ELSE "launched"]
    /\ mainPc' = "wgWait"
    /\ UNCHANGED <<monPc, monTaken, runPc, runResult, runCalls, stopCalls,
                   stopLog, errors, ctxDone, notify, trigger, sigCount,
                   consumed, consumerMode, monSends, closeVars>>

\* a fan-out whose timeout context is derived from the run context:
\* context.WithTimeout(ctx, 5s) is born done when ctx is done
ThenStopFanout_FromRunCtx ==
    /\ mainPc = "shutdown"
    /\ stopCtx' = IF ctxDone THEN "cancelled" ELSE "active"
    /\ passes' = passes + 1
    /\ wg' = wg + NumProc
    /\ stopPc' = [p \in Procs |-> "launched"]
    /\ mainPc' = "wgWait"
    /\ UNCHANGED <<monPc, monTaken, runPc, runResult, runCalls, stopCalls,
                   stopLog, errors, ctxDone, notify, trigger, sigCount,
                   consumed, consumerMode, monSends, closeVars>>

\* context.WithTimeout(context.Background(), 5s); wg.Add(1) and go func per process
ThenStopFanout ==
    /\ mainPc = "shutdown"
    /\ stopCtx' = "active"
    /\ passes' = passes + 1
    /\ wg' = wg + NumProc
    /\ stopPc' = [p \in Procs |-> "launched"]
    /\ mainPc' = "wgWait"
    /\ UNCHANGED <<monPc, monTaken, runPc, runResult, runCalls, stopCalls,
                   stopLog, errors, ctxDone, notify, trigger, sigCount,
                   consumed, consumerMode,
                   monSends, closeVars>>

\* stop goroutine: process.Stop(ctx) is called
StopInvoke(p) ==
    /\ stopPc[p] = "launched"
    /\ stopPc' = [stopPc EXCEPT ![p] = "inStop"]
    /\ stopCalls' = [stopCalls EXCEPT ![p] = @ + 1]
    /\ UNCHANGED <<mainPc, monPc, monTaken, runPc, runResult, runCalls,
                   stopLog, errors, ctxDone, stopCtx, notify, wg, passes,
                   trigger, sigCount, consumed, consumerMode,
                   monSends, closeVars>>

\* a stop goroutine that calls Stop again when it returned an error
StopReturn_Retries(p, e) ==
    /\ stopPc[p] = "inStop"
    /\ e \in {"nil", "err"}
    /\ stopLog' = [stopLog EXCEPT ![p] = IF e = "nil" THEN "stopped" ELSE "failed"]
    /\ stopPc' = [stopPc EXCEPT ![p] = IF e = "nil" THEN "returned" ELSE "launched"]
    /\ wg' = IF e = "nil" THEN wg - 1 ELSE wg
    /\ UNCHANGED <<mainPc, monPc, monTaken, runPc, runResult, runCalls,
                   stopCalls, errors, ctxDone, stopCtx, notify, passes,
                   trigger, sigCount, consumed, consumerMode, monSends,
                   closeVars>>

\* process.Stop(ctx) returns e; the outcome is logged; deferred wg.Done()
StopReturn(p, e) ==
    /\ stopPc[p] = "inStop"
    /\ e \in {"nil", "err"}
    /\ stopLog' = [stopLog EXCEPT ![p] = IF e = "nil" THEN "stopped" ELSE "failed"]
    /\ stopPc' = [stopPc EXCEPT ![p] = "returned"]
    /\ wg' = wg - 1
    /\ UNCHANGED <<mainPc, monPc, monTaken, runPc, runResult, runCalls,
                   stopCalls, errors, ctxDone, stopCtx, notify, passes,
                   trigger, sigCount, consumed, consumerMode,
                   monSends, closeVars>>

\* the 5 second timer of the shutdown context fires
Deadline ==
    /\ stopCtx = "active"
    /\ stopCtx' = "expired"
    /\ UNCHANGED <<mainPc, monPc, monTaken, runPc, runResult, runCalls,
                   stopPc, stopCalls, stopLog, errors, ctxDone, notify, wg,
                   passes, trigger, sigCount, consumed, consumerMode,
                   monSends, closeVars>>

\* a ThenStop that goes back to <-c.stop after a shutdown pass
ThenStopWait_Loops ==
    /\ mainPc = "wgWait"
    /\ wg = 0
    /\ notify' = notify
    /\ stopCtx' = IF stopCtx = "active" THEN "cancelled" ELSE stopCtx
    /\ mainPc' = "waitStop"
    /\ UNCHANGED <<monPc, monTaken, runPc, runResult, runCalls, stopPc,
                   stopCalls, stopLog, errors, ctxDone, wg, passes, trigger,
                   sigCount, consumed, consumerMode,
                   monSends, closeVars>>

\* a ThenStop without wg.Wait(): it returns with Stop calls in flight
ThenStopWait_NoJoin ==
    /\ mainPc = "wgWait"
    /\ notify' = FALSE
    /\ stopCtx' = IF stopCtx = "active" THEN "cancelled" ELSE stopCtx
    /\ mainPc' = "done"
    /\ UNCHANGED <<monPc, monTaken, runPc, runResult, runCalls, stopPc,
                   stopCalls, stopLog, errors, ctxDone, wg, passes, trigger,
                   sigCount, consumed, consumerMode, monSends, closeVars>>

\* wg.Wait() returns; signal.Stop(c.stop); deferred cancel(); ThenStop returns
ThenStopWait ==
    /\ mainPc = "wgWait"
    /\ wg = 0
    /\ notify' = FALSE
    /\ stopCtx' = IF stopCtx = "active" THEN "cancelled" ELSE stopCtx
    /\ mainPc' = "done"
    /\ UNCHANGED <<monPc, monTaken, runPc, runResult, runCalls, stopPc,
                   stopCalls, stopLog, errors, ctxDone, wg, passes, trigger,
                   sigCount, consumed, consumerMode,
                   monSends, closeVars>>

(***************************************************************************)
(* Conductor.Errors: the caller receives from the channel it returns.      *)
(***************************************************************************)
ConsumerRecv ==
    /\ consumerMode = "during"
    /\ errors # <<>>
    /\ consumed' = consumed \cup {Head(errors)}
    /\ errors' = Tail(errors)
    /\ UNCHANGED <<mainPc, monPc, monTaken, runPc, runResult, runCalls,
                   stopPc, stopCalls, stopLog, ctxDone, stopCtx, notify, wg,
                   passes, trigger, sigCount, consumerMode,
                   monSends, closeVars>>

Next ==
    \/ Run
    \/ \E p \in Procs : \E r \in RunOutcomes : RunReturn(p, r)
    \/ \E p \in Procs : RunnerSend(p)
    \/ MonitorRecvErr
    \/ MonitorCtxDone
    \/ MonitorSend
    \/ SignalReceived
    \/ SignalDropped
    \/ CancelParent
    \/ ThenStopFanout
    \/ \E p \in Procs : StopInvoke(p)
    \/ \E p \in Procs : \E e \in {"nil", "err"} : StopReturn(p, e)
    \/ Deadline
    \/ ThenStopWait
    \/ ConsumerRecv

Spec == Init /\ [][Next]_vars

(***************************************************************************)
(* Fairness: the Go scheduler runs every runnable goroutine of the         *)
(* Conductor and timers fire.  Nothing is assumed of the environment: a    *)
(* process's Run or Stop may never return, no signal need arrive, the      *)
(* parent context need not be cancelled, nobody need read Errors().        *)
(***************************************************************************)
Fairness ==
    /\ WF_vars(Run)
    /\ WF_vars(MonitorRecvErr)
    /\ WF_vars(MonitorCtxDone)
    /\ WF_vars(MonitorSend)
    /\ WF_vars(ThenStopFanout)
    /\ WF_vars(ThenStopWait)
    /\ WF_vars(Deadline)
    /\ \A p \in Procs : WF_vars(RunnerSend(p))
    /\ \A p \in Procs : WF_vars(StopInvoke(p))

FairSpec == Init /\ [][Next]_vars /\ Fairness

(***************************************************************************)
(* The zap variant of the Conductor (src/parallel.go, lines 160-263):      *)
(* Process.Stop takes no context, and ThenStop closes c.stop and c.errors  *)
(* after the shutdown pass.  Run and monitor are the same code, so their   *)
(* actions are shared; what differs is modelled below.  A panic in any     *)
(* goroutine ends the program.                                             *)
(***************************************************************************)
\* wg.Add(1) and go func per process; no timeout context is derived
ZapThenStopFanout ==
    /\ mainPc = "shutdown"
    /\ passes' = passes + 1
    /\ wg' = wg + NumProc
    /\ stopPc' = [p \in Procs |-> "launched"]
    /\ mainPc' = "wgWait"
    /\ UNCHANGED <<monPc, monTaken, runPc, runResult, runCalls, stopCalls,
                   stopLog, errors, ctxDone, stopCtx, notify, trigger,
                   sigCount, consumed, consumerMode, monSends, closeVars>>

\* process.Stop() returns; "process stopped" is logged; deferred wg.Done()
ZapStopReturn(p) ==
    /\ stopPc[p] = "inStop"
    /\ stopLog' = [stopLog EXCEPT ![p] = "stopped"]
    /\ stopPc' = [stopPc EXCEPT ![p] = "returned"]
    /\ wg' = wg - 1
    /\ UNCHANGED <<mainPc, monPc, monTaken, runPc, runResult, runCalls,
                   stopCalls, errors, ctxDone, stopCtx, notify, passes,
                   trigger, sigCount, consumed, consumerMode, monSends,
                   closeVars>>

\* wg.Wait() returns; signal.Stop(c.stop); close(c.stop); close(c.errors)
ZapThenStopWait ==
    /\ mainPc = "wgWait"
    /\ wg = 0
    /\ notify' = FALSE
    /\ stopClosed' = TRUE
    /\ errorsClosed' = TRUE
    /\ mainPc' = "done"
    /\ UNCHANGED <<monPc, monTaken, runPc, runResult, runCalls, stopPc,
                   stopCalls, stopLog, errors, ctxDone, stopCtx, wg, passes,
                   trigger, sigCount, consumed, consumerMode, monSends,
                   panicked>>

\* runner goroutine: c.errors <- processError{...} on the open channel
ZapRunnerSend(p) ==
    /\ ~errorsClosed
    /\ RunnerSend(p)

\* runner goroutine: c.errors <- processError{...} after close(c.errors) panics
ZapRunnerSendClosed(p) ==
    /\ runPc[p] = "send"
    /\ errorsClosed
    /\ panicked' = "runnerSendClosed"
    /\ UNCHANGED <<mainPc, monPc, monTaken, runPc, runResult, runCalls,
                   stopPc, stopCalls, stopLog, errors, ctxDone, stopCtx,
                   notify, wg, passes, trigger, sigCount, consumed,
                   consumerMode, monSends, stopClosed, errorsClosed>>

\* monitor: c.stop <- syscall.SIGTERM after (or blocked until) close(c.stop) panics
ZapMonitorSendClosed ==
    /\ monPc = "send"
    /\ stopClosed
    /\ panicked' = "monitorSendClosed"
    /\ UNCHANGED <<mainPc, monPc, monTaken, runPc, runResult, runCalls,
                   stopPc, stopCalls, stopLog, errors, ctxDone, stopCtx,
                   notify, wg, passes, trigger, sigCount, consumed,
                   consumerMode, monSends, stopClosed, errorsClosed>>

\* monitor: <-c.errors on the closed, drained channel yields the zero
\* processError, and err.process.Name() on the nil interface panics
ZapMonitorRecvClosed ==
    /\ monPc = "select"
    /\ errorsClosed
    /\ errors = <<>>
    /\ panicked' = "monitorNilRecord"
    /\ UNCHANGED <<mainPc, monPc, monTaken, runPc, runResult, runCalls,
                   stopPc, stopCalls, stopLog, errors, ctxDone, stopCtx,
                   notify, wg, passes, trigger, sigCount, consumed,
                   consumerMode, monSends, stopClosed, errorsClosed>>

\* no goroutine has panicked: the program is still running
Alive == panicked = "none"

NextZap ==
    \/ Alive /\ Run
    \/ \E p \in Procs : \E r \in RunOutcomes : Alive /\ RunReturn(p, r)
    \/ \E p \in Procs : Alive /\ ZapRunnerSend(p)
    \/ \E p \in Procs : Alive /\ ZapRunnerSendClosed(p)
    \/ Alive /\ MonitorRecvErr
    \/ Alive /\ ZapMonitorRecvClosed
    \/ Alive /\ MonitorCtxDone
    \/ Alive /\ MonitorSend
    \/ Alive /\ ZapMonitorSendClosed
    \/ Alive /\ SignalReceived
    \/ Alive /\ SignalDropped
    \/ Alive /\ CancelParent
    \/ Alive /\ ZapThenStopFanout
    \/ \E p \in Procs : Alive /\ StopInvoke(p)
    \/ \E p \in Procs : Alive /\ ZapStopReturn(p)
    \/ Alive /\ ZapThenStopWait
    \/ Alive /\ ConsumerRecv

SpecZap == Init /\ [][NextZap]_vars

TypeOK ==
    /\ mainPc \in {"run", "waitStop", "shutdown", "wgWait", "done"}
    /\ monPc \in {"idle", "select", "send", "done"}
    /\ runPc \in [Procs -> {"idle", "running", "send", "done"}]
    /\ runResult \in [Procs -> {"none", "nil", "failure"}]
    /\ stopPc \in [Procs -> {"idle", "launched", "inStop", "returned"}]
    /\ stopLog \in [Procs -> {"none", "stopped", "failed"}]
    /\ Len(errors) <= ErrorsCap
    /\ ctxDone \in BOOLEAN
    /\ notify \in BOOLEAN
    /\ stopCtx \in {"none", "active", "expired", "cancelled"}
    /\ wg \in 0..NumProc
    /\ trigger \in {"none", "monitor", "signal"}
    /\ sigCount \in 0..MaxSignals
    /\ consumerMode \in {"none", "during"}

(***************************************************************************)
(* Properties.                                                             *)
(***************************************************************************)

\* C1: whatever triggers occur (run failures, parent cancellation, signals),
\* one Run(ctx).ThenStop() executes the shutdown body (timeout derivation and
\* Stop fan-out) exactly once: never twice, and once when ThenStop is past it.
C1_ShutdownOnce ==
    /\ passes <= 1
    /\ mainPc \in {"wgWait", "done"} => passes = 1
    /\ mainPc \in {"run", "waitStop", "shutdown"} => passes = 0

\* every process failed, the parent context was cancelled and a signal was
\* delivered, and ThenStop has returned after its single pass
C1_Witness ==
    /\ Failed = Procs
    /\ ctxDone
    /\ sigCount > 0
    /\ monPc = "send"
    /\ mainPc = "done"
    /\ passes = 1

\* C2: when a process's Run returned a non-nil error and nobody reads
\* Errors(), Stop ends up invoked on every process, the trigger having been
\* armed by the monitor unless an external signal came first; and once every
\* Stop has returned, ThenStop returns.
C2_FailureLeadsToShutdown ==
    /\ (Failed # {} /\ consumerMode = "none")
          ~> (AllStopsInvoked /\ (trigger = "monitor" \/ sigCount > 0))
    /\ AllStopsReturned ~> (mainPc = "done")

\* one process failed, the monitor took its record and armed the trigger,
\* both the failed process and its sibling were stopped, ThenStop returned
C2_Witness ==
    /\ consumerMode = "none"
    /\ Cardinality(Failed) = 1
    /\ monTaken # NoRec
    /\ monTaken.process \in Failed
    /\ trigger = "monitor"
    /\ sigCount = 0
    /\ ~ctxDone
    /\ AllStopsReturned
    /\ mainPc = "done"

\* C3: once the shutdown deadline has passed ThenStop returns, also when some
\* process's Stop never returns.
C3_ReturnsAfterDeadline == (stopCtx = "expired") ~> (mainPc = "done")

\* C4: a runner about to write its failure record always finds room in the
\* failure buffer, so the write does not block, whatever the monitor does.
C4_NonBlockingWrite ==
    \A p \in Procs : runPc[p] = "send" => Len(errors) < ErrorsCap

\* every process failed and wrote its record with nobody reading Errors(),
\* while the monitor is blocked on the trigger that a signal already fired
C4_Witness ==
    /\ consumerMode = "none"
    /\ Published = Procs
    /\ monPc = "send"
    /\ trigger = "signal"
    /\ Len(errors) + 1 >= NumProc

\* C5: a monitor that was woken (by a failure record or by cancellation)
\* eventually exits.
C5_MonitorExits == (monPc = "send") ~> (monPc = "done")

\* C6: an external signal delivered at any time after construction leads to
\* ThenStop starting the shutdown.
C6_SignalLeadsToShutdown == (sigCount > 0) ~> (passes > 0)

\* C7: when shutdown was triggered by an external signal, by the time
\* ThenStop returns the run context is done, there was one pass and Stop was
\* invoked on every process.
C7_SignalCancelsRunContext ==
    (trigger = "signal" /\ mainPc = "done")
        => (ctxDone /\ passes = 1 /\ AllStopsInvoked)

\* C8: once the parent context is done, the trigger gets armed and Stop is
\* invoked on every process.
C8_CancelLeadsToShutdown ==
    ctxDone ~> (AllStopsInvoked /\ trigger # "none")

\* no failure and no signal: the monitor took the ctx.Done() case, armed the
\* trigger, and every process got its Stop
C8_Witness ==
    /\ ctxDone
    /\ Failed = {}
    /\ sigCount = 0
    /\ monTaken = NoRec
    /\ monPc = "done"
    /\ trigger = "monitor"
    /\ AllStopsInvoked

\* the records of process p that are anywhere: buffer, monitor, consumer
HasRecord(p) ==
    \/ InBuffer(p)
    \/ monTaken.process = p
    \/ \E r \in consumed : r.process = p

\* C9: a process whose Run returned nil has no record anywhere and does not
\* wake the monitor; with only nil returns, no cancellation and no signal,
\* the trigger is not armed and no Stop is invoked.
C9_NilRunIsNotFailure ==
    /\ \A p \in Procs : runResult[p] # "failure" => ~HasRecord(p)
    /\ (Failed = {} /\ ~ctxDone /\ sigCount = 0) =>
          /\ monPc \in {"idle", "select"}
          /\ trigger = "none"
          /\ passes = 0
          /\ \A p \in Procs : stopCalls[p] = 0

\* every Run has returned nil, nothing else happened, ThenStop keeps waiting
C9_Witness ==
    /\ \A p \in Procs : runResult[p] = "nil" /\ runPc[p] = "done"
    /\ ~ctxDone
    /\ sigCount = 0
    /\ mainPc = "waitStop"
    /\ monPc = "select"

\* C10: the record of every process that published a failure is still in
\* the buffer of the channel Errors() returns, or was received from it by
\* the consumer.
C10_RecordsReceivable ==
    \A p \in Published : InBuffer(p) \/ (\E r \in consumed : r.process = p)

\* C11: after ThenStop has returned the failure buffer is released (closed),
\* so a range over Errors() ends once the remaining records are read.
C11_BufferReleased == mainPc = "done" => errorsClosed

\* C12: a Stop that returned an error is only logged: there is one shutdown
\* pass, the trigger is not armed again, every sibling's stop goroutine was
\* launched, no Stop is called twice, and ThenStop returns only with all
\* Stops returned.
C12_StopErrorOnlyReported ==
    \A p \in Procs : stopLog[p] = "failed" =>
        /\ stopPc[p] = "returned"
        /\ passes = 1
        /\ monSends <= 1
        /\ mainPc \in {"wgWait", "done"}
        /\ \A q \in Procs : stopCalls[q] <= 1 /\ stopPc[q] # "idle"
        /\ mainPc = "done" => AllStopsReturned

\* one Stop returned an error, a sibling's Stop returned nil, ThenStop returned
C12_Witness ==
    /\ \E p \in Procs : stopLog[p] = "failed"
    /\ \E q \in Procs : stopLog[q] = "stopped"
    /\ AllStopsReturned
    /\ mainPc = "done"

\* C13: ThenStop is past <-c.stop, and a Stop goroutine exists, only after
\* the trigger fired: through the monitor after it took a failure record or
\* saw the parent context done, or through an external signal.
C13_NoStopBeforeTrigger ==
    /\ (mainPc \notin {"run", "waitStop"} \/ \E p \in Procs : stopPc[p] # "idle") =>
          /\ trigger # "none"
          /\ trigger = "monitor" => (monTaken.err = "failure" \/ ctxDone)
          /\ trigger = "signal" => sigCount > 0
    /\ (monTaken = NoRec /\ ~ctxDone /\ sigCount = 0) =>
          /\ mainPc \in {"run", "waitStop"}
          /\ \A p \in Procs : stopCalls[p] = 0

\* a Stop is in progress after the monitor took a failure record; before,
\* there was neither cancellation nor signal
C13_Witness ==
    /\ \E p \in Procs : stopPc[p] = "inStop"
    /\ trigger = "monitor"
    /\ monTaken.err = "failure"
    /\ ~ctxDone
    /\ sigCount = 0

\* C14: Stop is invoked at most once on a process, every process gets a
\* stop goroutine in the fan-out, and when ThenStop has returned every
\* process has had exactly one Stop, whatever the state of its Run.
C14_StopOncePerProcess ==
    \A p \in Procs :
        /\ stopCalls[p] <= 1
        /\ mainPc \in {"wgWait", "done"} => stopPc[p] # "idle"
        /\ mainPc = "done" => stopCalls[p] = 1

\* ThenStop returned; one process's Run is still in flight, another one's
\* returned the error the monitor took
C14_Witness ==
    /\ mainPc = "done"
    /\ \E p \in Procs : runPc[p] = "running" /\ stopCalls[p] = 1
    /\ \E q \in Procs : monTaken.process = q /\ runPc[q] = "done" /\ stopCalls[q] = 1

\* C15: the stop context is derived live, whatever the state of the run
\* context, and at every Stop invocation it is not cancelled: it is active,
\* or at most its own timeout has run out since the derivation.
C15_StopCtxFresh ==
    [][ /\ (mainPc = "shutdown" /\ mainPc' = "wgWait") => stopCtx' = "active"
        /\ \A p \in Procs :
              stopCalls'[p] > stopCalls[p] => stopCtx' \in {"active", "expired"}
      ]_vars

\* shutdown triggered by cancellation alone; a Stop runs with a live context
C15_Witness ==
    /\ ctxDone
    /\ monTaken = NoRec
    /\ trigger = "monitor"
    /\ sigCount = 0
    /\ stopCtx = "active"
    /\ \E p \in Procs : stopPc[p] = "inStop"

\* C16: before Run nothing is launched; once Run has returned the monitor is
\* launched and every process's Run has been invoked exactly once, whether
\* or not any of them has returned.
C16_RunLaunchesAll ==
    /\ mainPc = "run" =>
          monPc = "idle" /\ \A p \in Procs : runPc[p] = "idle" /\ runCalls[p] = 0
    /\ mainPc # "run" =>
          monPc # "idle" /\ \A p \in Procs : runPc[p] # "idle" /\ runCalls[p] = 1

\* Run returned and ThenStop ran to its end while every Run is still blocked
C16_Witness ==
    /\ mainPc = "done"
    /\ \A p \in Procs : runPc[p] = "running" /\ runCalls[p] = 1

\* C17: a run failure leads to the shutdown pass, with or without a reader
\* of Errors().
C17_FailureAlwaysTriggers == (Failed # {}) ~> (passes > 0)

\* C18: ThenStop keeps the signals registered until it returns, and it
\* returns only with every Stop it launched returned and the signals
\* deregistered.
C18_FanIn ==
    /\ mainPc = "done" => (AllStopsReturned /\ wg = 0 /\ ~notify)
    /\ mainPc # "done" => notify

\* ThenStop has returned after all Stops did
C18_Witness ==
    /\ mainPc = "done"
    /\ AllStopsReturned
    /\ \A p \in Procs : stopCalls[p] = 1
    /\ ~notify

\* C19: in the channel-closing variant no goroutine panics by sending on a
\* closed channel.
C19_NoSendOnClosed ==
    panicked \notin {"runnerSendClosed", "monitorSendClosed"}

\* number of records of process p in the buffer, with the monitor and with
\* the reader of Errors()
RecordCount(p) ==
    Cardinality({i \in 1..Len(errors) : errors[i].process = p})
      + (IF monTaken.process = p THEN 1 ELSE 0)
      + Cardinality({r \in consumed : r.process = p})

\* C20: the monitor sends on the trigger at most once and holds at most the
\* one record it took; the buffer never exceeds N records; every published
\* record is accounted for exactly once (buffer, monitor or reader) and no
\* process has more than one.
C20_MonitorTakesOne ==
    /\ monSends <= 1
    /\ Len(errors) <= NumProc
    /\ \A p \in Procs : RecordCount(p) <= 1
    /\ \A p \in Published : RecordCount(p) = 1
    /\ consumerMode = "none" =>
          \A p \in Published : InBuffer(p) \/ monTaken.process = p

\* every process failed; the monitor took one record and armed the trigger
\* once, the others stay in the buffer
C20_Witness ==
    /\ consumerMode = "none"
    /\ Published = Procs
    /\ monTaken # NoRec
    /\ monSends = 1
    /\ Len(errors) = NumProc - 1

====
